---- MODULE Spec2Model ----
(***************************************************************************)
(* A model of weather_forecast_app.py: the SQLite store DatabaseManager    *)
(* (favorites and weather_history tables) and WeatherData.fetch_weather.   *)
(*                                                                         *)
(* Python values are tagged records, so that None, text, int and float     *)
(* stay distinct: numbers carry their type and ten times their value       *)
(* (31.5 is the float with x10 = 315, 30 is the int with x10 = 300).       *)
(***************************************************************************)
EXTENDS Integers, Sequences, FiniteSets, TLC

VARIABLES
    favorites,   \* rows of table favorites: [id, city, lat, lon]
    favSeq,      \* sqlite_sequence entry of favorites (largest id ever given)
    history,     \* rows of table weather_history
    histSeq,     \* sqlite_sequence entry of weather_history
    added,       \* ghost: <<city, lat, lon>> of each successful add not removed since, by time
    saved,       \* ghost: the weather_data dicts passed to save_weather_history, by time
    writes,      \* number of add/remove/save calls made so far
    last,        \* the last call: its name, arguments, result and the tables before it
    conn,        \* the DatabaseManager's connection: "open" or "closed"
    closes,      \* number of close() calls on the current DatabaseManager
    app          \* the WeatherApp object: its phase, listbox and handler runs

vars == <<favorites, favSeq, history, histSeq, added, saved, writes, last, conn, closes, app>>

----------------------------------------------------------------------------
(* Python values *)

PyNone == [k |-> "none"]
PyStr(s) == [k |-> "str", s |-> s]
PyInt(n) == [k |-> "num", ty |-> "int", x10 |-> 10 * n]
PyFloat(x10) == [k |-> "num", ty |-> "float", x10 |-> x10]
PyDict(f) == [k |-> "dict", f |-> f]
PyList(e) == [k |-> "list", e |-> e]

\* Python's == on the values used here: 30 == 30.0, otherwise same type and value.
PyEq(a, b) ==
    IF a.k = "num" /\ b.k = "num" THEN a.x10 = b.x10 ELSE a = b

\* Python's truth value: None, "", 0, 0.0, {} and [] are false.
Truthy(v) ==
    CASE v.k = "none" -> FALSE
      [] v.k = "str"  -> v.s # ""
      [] v.k = "num"  -> v.x10 # 0
      [] v.k = "dict" -> DOMAIN v.f # {}
      [] v.k = "list" -> Len(v.e) > 0

----------------------------------------------------------------------------
(* Bounds and the inputs drawn *)

MaxWrites == 4

\* Handler runs of one WeatherApp.
MaxRuns == 3

Cities == {PyStr("Lahore"), PyStr("lahore"), PyStr("Karachi")}
CityArgs == Cities \cup {PyNone}

CoordArgs == { <<PyFloat(315), PyFloat(743)>>, <<PyInt(31), PyInt(0)>> }

ObsArgs ==
    { [temp |-> PyInt(30), humidity |-> PyInt(50), wind_speed |-> PyInt(2),
       description |-> PyStr("clear sky"), timestamp |-> PyStr("2025-06-13 12:00:00")],
      [temp |-> PyFloat(305), humidity |-> PyFloat(500), wind_speed |-> PyFloat(21),
       description |-> PyStr("light rain"), timestamp |-> PyStr("2025-06-13 12:00:01")] }

WeatherDataArgs ==
    { [city |-> c, temp |-> o.temp, humidity |-> o.humidity, wind_speed |-> o.wind_speed,
       description |-> o.description, timestamp |-> o.timestamp] : c \in Cities, o \in ObsArgs }

----------------------------------------------------------------------------
(* SQLite: column affinity, rowids, scan order *)

\* REAL column: an integer is stored as the float of the same value.
RealAffinity(v) ==
    IF v.k = "num" /\ v.ty = "int" THEN PyFloat(v.x10) ELSE v

\* INTEGER column: a float with no fractional part is stored as the integer.
IntegerAffinity(v) ==
    IF v.k = "num" /\ v.ty = "float" /\ v.x10 % 10 = 0 THEN PyInt(v.x10 \div 10) ELSE v

SetMax(S) == CHOOSE m \in S : \A x \in S : x <= m

\* INTEGER PRIMARY KEY AUTOINCREMENT: one more than the largest rowid ever used.
NextRowid(rows, seq) == SetMax({seq} \cup {r.id : r \in rows}) + 1

\* The scan an ORDER BY id DESC would give.
RECURSIVE ScanByRowidDescending(_)
ScanByRowidDescending(rows) ==
    IF rows = {} THEN <<>>
    ELSE LET first == CHOOSE r \in rows : \A q \in rows : r.id >= q.id
         IN  <<first>> \o ScanByRowidDescending(rows \ {first})

\* A full-table scan visits the rows by ascending rowid.
RECURSIVE ScanByRowid(_)
ScanByRowid(rows) ==
    IF rows = {} THEN <<>>
    ELSE LET first == CHOOSE r \in rows : \A q \in rows : r.id <= q.id
         IN  <<first>> \o ScanByRowid(rows \ {first})

----------------------------------------------------------------------------
(* DatabaseManager: each operation maps the tables to the new tables and the
   value returned *)

\* favorites.city is TEXT NOT NULL UNIQUE (BINARY collation: exact match), so
\* the INSERT raises sqlite3.IntegrityError for NULL and for a city already there.
\* City names, descriptions and timestamps are text or None here, which a TEXT
\* column stores unchanged.
\* The constraint check of a city column declared without UNIQUE.
IntegrityErrorNoUnique(favs, city, lat, lon) ==
    city = PyNone

\* The constraint check of the schema as written.
IntegrityError(favs, city, lat, lon) ==
    \/ city = PyNone
    \/ \E r \in favs : r.city = city

FavoriteRow(id, city, lat, lon) ==
    [id |-> id, city |-> city, lat |-> RealAffinity(lat), lon |-> RealAffinity(lon)]

\* add_favorite as it would be if a duplicate overwrote the stored lat/lon.
add_favorite_replace(favs, seq, city, lat, lon) ==
    IF IntegrityError(favs, city, lat, lon)
    THEN [favs |-> {IF r.city = city THEN FavoriteRow(r.id, city, lat, lon) ELSE r : r \in favs},
          seq  |-> seq,
          ret  |-> <<FALSE, "City already in favorites.">>]
    ELSE [favs |-> favs \cup {FavoriteRow(NextRowid(favs, seq), city, lat, lon)},
          seq  |-> NextRowid(favs, seq),
          ret  |-> <<TRUE, "City added to favorites.">>]

add_favorite(favs, seq, city, lat, lon) ==
    IF IntegrityError(favs, city, lat, lon)
    THEN [favs |-> favs, seq |-> seq, ret |-> <<FALSE, "City already in favorites.">>]
    ELSE [favs |-> favs \cup {FavoriteRow(NextRowid(favs, seq), city, lat, lon)},
          seq  |-> NextRowid(favs, seq),
          ret  |-> <<TRUE, "City added to favorites.">>]

\* DELETE ... WHERE city = ?: NULL equals nothing; rowcount is the number deleted.
DeleteMatches(r, city) == city # PyNone /\ r.city = city

\* remove_favorite as it would be if it ignored rowcount.
remove_favorite_always_true(favs, city) ==
    [favs |-> {r \in favs : ~DeleteMatches(r, city)}, ret |-> <<TRUE, "City removed.">>]

remove_favorite(favs, city) ==
    LET rowcount == Cardinality({r \in favs : DeleteMatches(r, city)})
    IN  [favs |-> {r \in favs : ~DeleteMatches(r, city)},
         ret  |-> <<rowcount > 0, IF rowcount > 0 THEN "City removed." ELSE "City not found.">>]

\* get_favorites as it would be with the newest row first.
get_favorites_newest_first(favs) ==
    LET scan == ScanByRowidDescending(favs)
    IN  [i \in 1..Len(scan) |-> <<scan[i].city, scan[i].lat, scan[i].lon>>]

get_favorites(favs) ==
    LET scan == ScanByRowid(favs)
    IN  [i \in 1..Len(scan) |-> <<scan[i].city, scan[i].lat, scan[i].lon>>]

HistoryRow(id, weather_data) ==
    [id          |-> id,
     city        |-> weather_data.city,
     temp        |-> RealAffinity(weather_data.temp),
     humidity    |-> IntegerAffinity(weather_data.humidity),
     wind_speed  |-> RealAffinity(weather_data.wind_speed),
     description |-> weather_data.description,
     timestamp   |-> weather_data.timestamp]

\* save_weather_history as it would be if it kept one row per city.
save_weather_history_replace_city(hist, seq, weather_data) ==
    [hist |-> {r \in hist : r.city # weather_data.city}
                 \cup {HistoryRow(NextRowid(hist, seq), weather_data)},
     seq  |-> NextRowid(hist, seq)]

save_weather_history(hist, seq, weather_data) ==
    [hist |-> hist \cup {HistoryRow(NextRowid(hist, seq), weather_data)},
     seq  |-> NextRowid(hist, seq)]

\* get_weather_history as it would be without its WHERE clause.
get_weather_history_all(hist, city) ==
    LET scan == ScanByRowid(hist)
    IN  [i \in 1..Len(scan) |->
            <<scan[i].temp, scan[i].humidity, scan[i].wind_speed,
              scan[i].description, scan[i].timestamp>>]

get_weather_history(hist, city) ==
    LET scan == ScanByRowid({r \in hist : city # PyNone /\ r.city = city})
    IN  [i \in 1..Len(scan) |->
            <<scan[i].temp, scan[i].humidity, scan[i].wind_speed,
              scan[i].description, scan[i].timestamp>>]

----------------------------------------------------------------------------
(* WeatherData.fetch_weather: a function of its arguments and of what the
   network and the clock answer *)

Ok(v) == [ok |-> TRUE, v |-> v]
Raise(exc, arg) == [ok |-> FALSE, exc |-> exc, arg |-> arg]

\* obj[key] for a text key: a dict yields the value or KeyError(key), whose
\* str() is the key's repr; any other value raises TypeError.
GetItem(obj, key) ==
    IF obj.k = "dict"
    THEN IF key \in DOMAIN obj.f THEN Ok(obj.f[key]) ELSE Raise("KeyError", "'" \o key \o "'")
    ELSE Raise("TypeError", "")

\* obj[0]: a list yields its first element or IndexError; a dict decoded from
\* JSON has text keys only, so KeyError(0); None and numbers raise TypeError.
GetItem0(obj) ==
    CASE obj.k = "list" -> IF Len(obj.e) > 0 THEN Ok(obj.e[1])
                           ELSE Raise("IndexError", "list index out of range")
      [] obj.k = "dict" -> Raise("KeyError", "0")
      [] obj.k \in {"none", "num"} -> Raise("TypeError", "")

RECURSIVE Lookup(_, _)
Lookup(obj, path) ==
    IF path = <<>> THEN Ok(obj)
    ELSE LET r == IF Head(path) = "[0]" THEN GetItem0(obj) ELSE GetItem(obj, Head(path))
         IN  IF r.ok THEN Lookup(r.v, Tail(path)) ELSE r

\* The dict display as it would be with coord.lat and coord.lon exchanged.
ObservationPathsSwapped ==
    << <<"name">>, <<"main", "temp">>, <<"main", "humidity">>, <<"wind", "speed">>,
       <<"weather", "[0]", "description">>, <<"coord", "lon">>, <<"coord", "lat">> >>

\* The subscripts of the dict display, in the order Python evaluates them:
\* city, temp, humidity, wind_speed, description, lat, lon.
ObservationPaths ==
    << <<"name">>, <<"main", "temp">>, <<"main", "humidity">>, <<"wind", "speed">>,
       <<"weather", "[0]", "description">>, <<"coord", "lat">>, <<"coord", "lon">> >>

\* The dict display: the first subscript that raises ends the evaluation.
BuildObservation(data, now) ==
    LET got    == [i \in 1..Len(ObservationPaths) |-> Lookup(data, ObservationPaths[i])]
        failed == {i \in 1..Len(ObservationPaths) : ~got[i].ok}
    IN  IF failed # {}
        THEN got[CHOOSE i \in failed : \A j \in failed : i <= j]
        ELSE Ok(PyDict([city        |-> got[1].v,
                        temp        |-> got[2].v,
                        humidity    |-> got[3].v,
                        wind_speed  |-> got[4].v,
                        description |-> got[5].v,
                        lat         |-> got[6].v,
                        lon         |-> got[7].v,
                        timestamp   |-> PyStr(now)]))

\* data.get(key, default)
DictGet(data, key, default) ==
    IF key \in DOMAIN data.f THEN data.f[key] ELSE default

\* The cod check as it would be if it looked for the number 404 only.
ProviderFailedOn404Only(data) ==
    PyEq(DictGet(data, "cod", PyNone), PyInt(404))

\* data.get("cod") != 200
ProviderFailed(data) ==
    ~PyEq(DictGet(data, "cod", PyNone), PyInt(200))

\* elif lat or lon
HasCoordinatesEither(lat, lon) == Truthy(lat) \/ Truthy(lon)

\* elif lat and lon
HasCoordinates(lat, lon) == Truthy(lat) /\ Truthy(lon)

\* The key WeatherApp constructs its WeatherData with.
ApiKey == "cb2d71f2983036746e39acc3dafa4bd3"

BaseUrl == "https://api.openweathermap.org/data/2.5/weather"

BuildUrl(city, lat, lon) ==
    [base  |-> BaseUrl,
     query |-> IF Truthy(city) THEN <<"q", city>> ELSE <<"lat", lat, "lon", lon>>,
     appid |-> ApiKey,
     units |-> "metric"]

Returned(data, error, requests) ==
    [kind |-> "return", data |-> data, error |-> error, requests |-> requests]

Raised(exc, requests) ==
    [kind |-> "raise", exc |-> exc, requests |-> requests]

\* Exceptions that are requests.RequestException, which the first handler catches.
RequestExceptions == {"ConnectionError", "Timeout", "HTTPError", "requests.JSONDecodeError"}

\* The calls of requests.get a failing first attempt would be followed by if
\* fetch_weather retried once.
RequestsSentWithRetry(url, env) ==
    IF env.transport # "ok" THEN <<url, url>> ELSE <<url>>

\* The calls of requests.get of one fetch_weather: a single call, in no loop.
RequestsSent(url, env) == <<url>>

fetch_weather(city, lat, lon, env) ==
    IF ~Truthy(city) /\ ~HasCoordinates(lat, lon)
    THEN Returned(PyNone, PyStr("Please provide a city name or coordinates."), <<>>)
    ELSE
        LET sent == RequestsSent(BuildUrl(city, lat, lon), env) IN
        IF env.transport # "ok"
        THEN Returned(PyNone, PyStr("Network error: " \o env.cause), sent)
        ELSE IF env.body.k = "invalid"
        THEN IF env.jsonError \in RequestExceptions
             THEN Returned(PyNone, PyStr("Network error: " \o env.cause), sent)
             ELSE Raised(env.jsonError, sent)
        ELSE IF env.body.k # "dict"
        THEN Raised("AttributeError", sent)
        ELSE IF ProviderFailed(env.body)
        THEN Returned(PyNone,
                      DictGet(env.body, "message", PyStr("Error fetching weather data.")),
                      sent)
        ELSE LET r == BuildObservation(env.body, env.now)
             IN  IF r.ok THEN Returned(r.v, PyNone, sent)
                 ELSE IF r.exc = "KeyError"
                 THEN Returned(PyNone,
                               PyStr("Data parsing error: Missing key " \o r.arg), sent)
                 ELSE Raised(r.exc, sent)

----------------------------------------------------------------------------
(* The arguments fetch_weather is called with and the answers it may get *)

Absent == [k |-> "absent"]

\* The JSON object with the keys of r whose value is not Absent.
JsonObject(r) == PyDict([key \in {x \in DOMAIN r : r[x] # Absent} |-> r[key]])

CodChoices == {PyInt(200), PyInt(404), PyStr("404"), Absent}
MessageChoices == {PyStr("city not found"), PyStr(""), PyNone, Absent}
NameChoices == {PyStr("Lahore"), Absent}
MainChoices ==
    { JsonObject([temp |-> PyInt(30), humidity |-> PyInt(50)]),
      JsonObject([temp |-> Absent, humidity |-> PyInt(50)]),
      JsonObject([temp |-> PyInt(30), humidity |-> Absent]),
      PyInt(5), Absent }
WindChoices ==
    { JsonObject([speed |-> PyFloat(21)]), JsonObject([speed |-> Absent]), PyNone, Absent }
WeatherChoices ==
    { PyList(<<JsonObject([description |-> PyStr("clear sky")])>>),
      PyList(<<JsonObject([description |-> Absent])>>),
      PyList(<<>>), Absent }
CoordChoices ==
    { JsonObject([lat |-> PyFloat(315), lon |-> PyFloat(743)]),
      JsonObject([lat |-> Absent, lon |-> PyFloat(743)]),
      JsonObject([lat |-> PyFloat(315), lon |-> Absent]),
      Absent }

JsonObjects ==
    { JsonObject([cod |-> cod, message |-> message, name |-> name, main |-> main,
                  wind |-> wind, weather |-> weather, coord |-> coord]) :
        cod \in CodChoices, message \in MessageChoices, name \in NameChoices,
        main \in MainChoices, wind \in WindChoices, weather \in WeatherChoices,
        coord \in CoordChoices }

Timestamps == {"2025-06-13 12:00:00", "2025-06-13 12:00:01"}

\* What requests.get, raise_for_status, response.json and datetime.now answer:
\* a transport failure; a body that is no JSON (response.json raises
\* requests.JSONDecodeError, a RequestException, from requests 2.27 on and a
\* plain ValueError before); a JSON body that is no object; a JSON object.
Envs ==
    { [transport |-> t, cause |-> "Max retries exceeded with url"] :
        t \in {"ConnectionError", "Timeout"} }
    \cup { [transport |-> "HTTPError", cause |-> "401 Client Error: Unauthorized for url"] }
    \cup { [transport |-> "ok", body |-> [k |-> "invalid"], jsonError |-> e,
            cause |-> "Expecting value: line 1 column 1 (char 0)"] :
             e \in {"requests.JSONDecodeError", "ValueError"} }
    \cup { [transport |-> "ok", body |-> b] : b \in {PyList(<<>>), PyNone} }
    \cup { [transport |-> "ok", body |-> b, now |-> n] : b \in JsonObjects, n \in Timestamps }

FetchCityArgs == {PyNone, PyStr(""), PyStr("Lahore")}
FetchLatLonArgs ==
    { <<PyNone, PyNone>>, <<PyFloat(315), PyNone>>, <<PyNone, PyFloat(743)>>,
      <<PyFloat(315), PyFloat(743)>>, <<PyInt(0), PyFloat(743)>>, <<PyFloat(315), PyFloat(0)>> }

----------------------------------------------------------------------------
(* The store's state machine: a fresh database, then any calls *)

Call(op, args, ret) ==
    [op |-> op, args |-> args, ret |-> ret, exc |-> "",
     favBefore |-> favorites, histBefore |-> history]

\* A call that raised instead of returning.
CallRaised(op, args, exc) ==
    [op |-> op, args |-> args, ret |-> <<>>, exc |-> exc,
     favBefore |-> favorites, histBefore |-> history]

\* No WeatherApp has been constructed: the store is used directly.
NoApp == [phase |-> "none", listbox |-> <<>>, runs |-> 0]

\* CREATE TABLE IF NOT EXISTS: a table that exists keeps its rows, a missing
\* one is created empty.
CreateTableIfNotExists(exists, rows) == IF exists THEN rows ELSE {}

Init ==
    /\ favorites = CreateTableIfNotExists(FALSE, {})
    /\ favSeq = 0
    /\ history = CreateTableIfNotExists(FALSE, {})
    /\ histSeq = 0
    /\ added = <<>>
    /\ saved = <<>>
    /\ writes = 0
    /\ last = [op |-> "connect", args |-> <<>>, ret |-> <<>>, exc |-> "",
               favBefore |-> {}, histBefore |-> {}]
    /\ conn = "open"
    /\ closes = 0
    /\ app = NoApp

\* cursor.execute on a closed connection raises sqlite3.ProgrammingError.
ExecuteFailsNever(c) == FALSE

ExecuteFails(c) == c = "closed"

AddFavorite ==
    /\ writes < MaxWrites
    /\ \E city \in CityArgs, c \in CoordArgs :
          IF ExecuteFails(conn)
          THEN /\ last' = CallRaised("add_favorite", <<city, c[1], c[2]>>, "ProgrammingError")
               /\ UNCHANGED <<favorites, favSeq, added>>
          ELSE LET r == add_favorite(favorites, favSeq, city, c[1], c[2])
               IN  /\ favorites' = r.favs
                   /\ favSeq' = r.seq
                   /\ added' = IF r.ret[1] THEN Append(added, <<city, c[1], c[2]>>) ELSE added
                   /\ last' = Call("add_favorite", <<city, c[1], c[2]>>, r.ret)
    /\ writes' = writes + 1
    /\ UNCHANGED <<history, histSeq, saved, conn, closes, app>>

\* remove_favorite as it would be if the removal cascaded to the city's
\* weather_history rows.
RemoveFavoriteCascade ==
    /\ writes < MaxWrites
    /\ \E city \in CityArgs :
          LET r == remove_favorite(favorites, city)
          IN  /\ favorites' = r.favs
              /\ history' = {h \in history : h.city # city}
              /\ added' = SelectSeq(added, LAMBDA e : e[1] # city)
              /\ last' = Call("remove_favorite", <<city>>, r.ret)
    /\ writes' = writes + 1
    /\ UNCHANGED <<favSeq, histSeq, saved, conn, closes, app>>

RemoveFavorite ==
    /\ writes < MaxWrites
    /\ \E city \in CityArgs :
          IF ExecuteFails(conn)
          THEN /\ last' = CallRaised("remove_favorite", <<city>>, "ProgrammingError")
               /\ UNCHANGED <<favorites, added>>
          ELSE LET r == remove_favorite(favorites, city)
               IN  /\ favorites' = r.favs
                   /\ added' = SelectSeq(added, LAMBDA e : e[1] # city)
                   /\ last' = Call("remove_favorite", <<city>>, r.ret)
    /\ writes' = writes + 1
    /\ UNCHANGED <<favSeq, history, histSeq, saved, conn, closes, app>>

GetFavorites ==
    /\ last' = IF ExecuteFails(conn)
               THEN CallRaised("get_favorites", <<>>, "ProgrammingError")
               ELSE Call("get_favorites", <<>>, get_favorites(favorites))
    /\ UNCHANGED <<favorites, favSeq, history, histSeq, added, saved, writes>>
    /\ UNCHANGED <<conn, closes, app>>

SaveWeatherHistory ==
    /\ writes < MaxWrites
    /\ \E weather_data \in WeatherDataArgs :
          IF ExecuteFails(conn)
          THEN /\ last' = CallRaised("save_weather_history", <<weather_data>>, "ProgrammingError")
               /\ UNCHANGED <<history, histSeq, saved>>
          ELSE LET r == save_weather_history(history, histSeq, weather_data)
               IN  /\ history' = r.hist
                   /\ histSeq' = r.seq
                   /\ saved' = Append(saved, weather_data)
                   /\ last' = Call("save_weather_history", <<weather_data>>, PyNone)
    /\ writes' = writes + 1
    /\ UNCHANGED <<favorites, favSeq, added, conn, closes, app>>

GetWeatherHistory ==
    /\ \E city \in CityArgs :
          last' = IF ExecuteFails(conn)
                  THEN CallRaised("get_weather_history", <<city>>, "ProgrammingError")
                  ELSE Call("get_weather_history", <<city>>, get_weather_history(history, city))
    /\ UNCHANGED <<favorites, favSeq, history, histSeq, added, saved, writes>>
    /\ UNCHANGED <<conn, closes, app>>

Next ==
    \/ AddFavorite
    \/ RemoveFavorite
    \/ GetFavorites
    \/ SaveWeatherHistory
    \/ GetWeatherHistory

Spec == Init /\ [][Next]_vars

\* The store with its whole life: besides the calls above, create_tables may
\* be run again, the connection closed, and a new DatabaseManager constructed
\* over the same database file.
create_tables_drop_first(favs, hist) ==
    [favs |-> {}, hist |-> {}]

create_tables(favs, hist) ==
    [favs |-> CreateTableIfNotExists(TRUE, favs), hist |-> CreateTableIfNotExists(TRUE, hist)]

CreateTables ==
    /\ writes < MaxWrites
    /\ IF ExecuteFails(conn)
       THEN /\ last' = CallRaised("create_tables", <<>>, "ProgrammingError")
            /\ UNCHANGED <<favorites, history>>
       ELSE LET r == create_tables(favorites, history)
            IN  /\ favorites' = r.favs
                /\ history' = r.hist
                /\ last' = Call("create_tables", <<>>, PyNone)
    /\ writes' = writes + 1
    /\ UNCHANGED <<favSeq, histSeq, added, saved, conn, closes, app>>

\* close(): sqlite3 accepts a second close of a closed connection.
Close ==
    /\ writes < MaxWrites
    /\ conn' = "closed"
    /\ closes' = closes + 1
    /\ last' = Call("close", <<>>, PyNone)
    /\ writes' = writes + 1
    /\ UNCHANGED <<favorites, favSeq, history, histSeq, added, saved, app>>

\* DatabaseManager(db_name) once more, after the close: sqlite3.connect opens
\* the file with the committed rows, and __init__ runs create_tables.
Connect ==
    /\ writes < MaxWrites
    /\ conn = "closed"
    /\ conn' = "open"
    /\ closes' = 0
    /\ LET r == create_tables(favorites, history)
       IN  /\ favorites' = r.favs
           /\ history' = r.hist
    /\ last' = Call("connect", <<>>, PyNone)
    /\ writes' = writes + 1
    /\ UNCHANGED <<favSeq, histSeq, added, saved, app>>

NextLife ==
    \/ AddFavorite
    \/ RemoveFavorite
    \/ GetFavorites
    \/ SaveWeatherHistory
    \/ GetWeatherHistory
    \/ CreateTables
    \/ Close
    \/ Connect

SpecLife == Init /\ [][NextLife]_vars

\* fetch_weather alone: it touches no table, so it is explored apart from the
\* store's calls. A behaviour is one call: the arguments and the answers of
\* the network and the clock are drawn at the start, then the call is made.
\* The answer of the network is kept with the result only when a request was
\* issued.
InitFetch ==
    /\ favorites = {}
    /\ favSeq = 0
    /\ history = {}
    /\ histSeq = 0
    /\ added = <<>>
    /\ saved = <<>>
    /\ writes = 0
    /\ conn = "open"
    /\ closes = 0
    /\ app = NoApp
    /\ last \in { [op |-> "call fetch_weather", args |-> <<city, ll[1], ll[2]>>, env |-> env] :
                    city \in FetchCityArgs, ll \in FetchLatLonArgs, env \in Envs }

FetchWeather ==
    /\ last.op = "call fetch_weather"
    /\ LET r == fetch_weather(last.args[1], last.args[2], last.args[3], last.env)
       IN  last' = [op |-> "fetch_weather", args |-> last.args, ret |-> r,
                    env |-> IF r.requests = <<>> THEN Absent ELSE last.env]
    /\ UNCHANGED <<favorites, favSeq, history, histSeq, added, saved, writes>>
    /\ UNCHANGED <<conn, closes, app>>

NextFetch == FetchWeather

SpecFetch == InitFetch /\ [][NextFetch]_vars

----------------------------------------------------------------------------
(* The application: WeatherApp from its construction to its end *)

\* What the user may have typed into city_entry, as pieces of text; " " is
\* white space.
Entries == { <<>>, <<" ">>, <<"lahore">>, <<" ", "lahore", " ">> }

\* str.strip(): leading and trailing white space removed; the pieces joined.
RECURSIVE StripLeft(_)
StripLeft(e) ==
    IF e = <<>> THEN <<>>
    ELSE IF Head(e) = " " THEN StripLeft(Tail(e)) ELSE e

RECURSIVE StripRight(_)
StripRight(e) ==
    IF e = <<>> THEN <<>>
    ELSE IF e[Len(e)] = " " THEN StripRight(SubSeq(e, 1, Len(e) - 1)) ELSE e

RECURSIVE Join(_)
Join(e) == IF e = <<>> THEN "" ELSE Head(e) \o Join(Tail(e))

Strip(e) == Join(StripRight(StripLeft(e)))

\* The listbox line f"{city} ({lat}, {lon})", as its pieces.
ListboxLine(fav) == <<fav[1].s, " (", fav[2], ", ", fav[3], ")">>

\* line.split(" (")[0]: the text before the first " (". City names are taken
\* to hold no " (" themselves.
RECURSIVE SplitFirst(_)
SplitFirst(line) ==
    IF line = <<>> \/ Head(line) = " (" THEN ""
    ELSE Head(line) \o SplitFirst(Tail(line))

\* update_favorites_list: the listbox refilled from get_favorites.
update_favorites_list(favs) ==
    LET rows == get_favorites(favs)
    IN  [i \in 1..Len(rows) |-> ListboxLine(rows[i])]

\* display_weather: subscripting None raises TypeError, and .capitalize() of
\* a description that is no string raises AttributeError; "" when it returns.
display_weather(weather) ==
    IF weather.k # "dict" THEN "TypeError"
    ELSE IF weather.f.description.k # "str" THEN "AttributeError"
    ELSE ""

\* The arguments add_to_favorites passes to add_favorite, as they would be if
\* the typed city were stored instead of the fetched one.
FavoriteArgsFromEntry(weather, city) ==
    <<PyStr(city), weather.f.lat, weather.f.lon>>

FavoriteArgs(weather, city) ==
    <<weather.f.city, weather.f.lat, weather.f.lon>>

\* A current-weather answer for Lahore with the given description.
AnswerFor(description) ==
    JsonObject([cod |-> PyInt(200), name |-> PyStr("Lahore"),
                main |-> JsonObject([temp |-> PyInt(30), humidity |-> PyInt(50)]),
                wind |-> JsonObject([speed |-> PyFloat(21)]),
                weather |-> PyList(<<JsonObject([description |-> description])>>),
                coord |-> JsonObject([lat |-> PyFloat(315), lon |-> PyFloat(743)])])

\* The answers a handler's fetch may get: two good ones, one with a null
\* description, provider errors with a message, with a null one and with an
\* empty one, an empty weather list, a missing wind, a transport failure.
AppEnvs ==
    { [transport |-> "ok", body |-> AnswerFor(PyStr("clear sky")), now |-> n] : n \in Timestamps }
    \cup { [transport |-> "ok", body |-> AnswerFor(PyNone), now |-> "2025-06-13 12:00:00"] }
    \cup { [transport |-> "ok", now |-> "2025-06-13 12:00:00",
            body |-> JsonObject([cod |-> PyStr("404"), message |-> m])] :
              m \in {PyStr("city not found"), PyNone, PyStr("")} }
    \cup { [transport |-> "ok", now |-> "2025-06-13 12:00:00",
            body |-> JsonObject([cod |-> PyInt(200), name |-> PyStr("Lahore"),
                                 main |-> JsonObject([temp |-> PyInt(30), humidity |-> PyInt(50)]),
                                 wind |-> w, weather |-> PyList(l),
                                 coord |-> JsonObject([lat |-> PyFloat(315), lon |-> PyFloat(743)])])] :
              <<w, l>> \in { <<JsonObject([speed |-> PyFloat(21)]), <<>> >>,
                             <<Absent, <<JsonObject([description |-> PyStr("clear sky")])>> >> } }
    \cup { [transport |-> "ConnectionError", cause |-> "Max retries exceeded with url"] }

\* One run of a handler: its name, what it read from the widgets, the result
\* of its fetch_weather call (Absent when it made none) and the exception it
\* ended with ("" when it returned).
HandlerRun(op, args, fetch, exc) ==
    [op |-> op, args |-> args, ret |-> PyNone, exc |-> exc, fetch |-> fetch,
     favBefore |-> favorites, histBefore |-> history]

\* The state after line 136 of WeatherApp.__init__: the store is open,
\* setup_gui has not run.
InitApp ==
    /\ favorites = CreateTableIfNotExists(FALSE, {})
    /\ favSeq = 0
    /\ history = CreateTableIfNotExists(FALSE, {})
    /\ histSeq = 0
    /\ added = <<>>
    /\ saved = <<>>
    /\ writes = 0
    /\ last = [op |-> "connect", args |-> <<>>, ret |-> <<>>, exc |-> "",
               favBefore |-> {}, histBefore |-> {}]
    /\ conn = "open"
    /\ closes = 0
    /\ app = [phase |-> "constructing", listbox |-> <<>>, runs |-> 0]

\* setup_gui builds the widgets and fills the listbox, or raises (tk.TclError)
\* and __init__ fails with the store open.
SetupGui ==
    /\ app.phase = "constructing"
    /\ \/ app' = [app EXCEPT !.phase = "running",
                              !.listbox = update_favorites_list(favorites)]
       \/ app' = [app EXCEPT !.phase = "failed"]
    /\ UNCHANGED <<favorites, favSeq, history, histSeq, added, saved, writes, last, conn, closes>>

\* The common course of search_weather and show_favorite_weather from the
\* fetch on: an error is shown and the handler returns; otherwise the weather
\* is displayed and then saved.
FetchDisplaySave(op, args, city, env) ==
    LET f     == fetch_weather(PyStr(city), PyNone, PyNone, env)
        exc   == IF f.kind = "raise" THEN f.exc
                 ELSE IF Truthy(f.error) THEN ""
                 ELSE IF display_weather(f.data) # "" THEN display_weather(f.data)
                 ELSE IF ExecuteFails(conn) THEN "ProgrammingError"
                 ELSE ""
        saves == f.kind = "return" /\ ~Truthy(f.error) /\ exc = ""
    IN  /\ last' = HandlerRun(op, args, f, exc)
        /\ IF saves
           THEN LET r == save_weather_history(history, histSeq, f.data.f)
                IN  /\ history' = r.hist
                    /\ histSeq' = r.seq
                    /\ saved' = Append(saved, f.data.f)
           ELSE UNCHANGED <<history, histSeq, saved>>
        /\ app' = [app EXCEPT !.runs = @ + 1]
        /\ UNCHANGED <<favorites, favSeq, added, writes, conn, closes>>

\* A handler that returns after its first check, with no fetch and no store call.
ReturnsEarly(op, args) ==
    /\ last' = HandlerRun(op, args, Absent, "")
    /\ app' = [app EXCEPT !.runs = @ + 1]
    /\ UNCHANGED <<favorites, favSeq, history, histSeq, added, saved, writes, conn, closes>>

SearchWeather ==
    /\ app.phase = "running"
    /\ app.runs < MaxRuns
    /\ \E entry \in Entries, env \in AppEnvs :
          LET city == Strip(entry)
          IN  IF city = ""
              THEN ReturnsEarly("search_weather", <<entry>>)
              ELSE FetchDisplaySave("search_weather", <<entry>>, city, env)

AddToFavorites ==
    /\ app.phase = "running"
    /\ app.runs < MaxRuns
    /\ \E entry \in Entries, env \in AppEnvs :
          LET city == Strip(entry)
          IN  IF city = ""
              THEN ReturnsEarly("add_to_favorites", <<entry>>)
              ELSE
                LET f    == fetch_weather(PyStr(city), PyNone, PyNone, env)
                    exc  == IF f.kind = "raise" THEN f.exc
                            ELSE IF Truthy(f.error) THEN ""
                            ELSE IF f.data.k # "dict" THEN "TypeError"
                            ELSE IF ExecuteFails(conn) THEN "ProgrammingError"
                            ELSE ""
                    adds == f.kind = "return" /\ ~Truthy(f.error) /\ exc = ""
                IN  /\ last' = HandlerRun("add_to_favorites", <<entry>>, f, exc)
                    /\ IF adds
                       THEN LET a == FavoriteArgs(f.data, city)
                                r == add_favorite(favorites, favSeq, a[1], a[2], a[3])
                            IN  /\ favorites' = r.favs
                                /\ favSeq' = r.seq
                                /\ added' = IF r.ret[1] THEN Append(added, a) ELSE added
                                /\ app' = [app EXCEPT
                                             !.runs = @ + 1,
                                             !.listbox = IF r.ret[1]
                                                         THEN update_favorites_list(r.favs)
                                                         ELSE @]
                       ELSE /\ app' = [app EXCEPT !.runs = @ + 1]
                            /\ UNCHANGED <<favorites, favSeq, added>>
                    /\ UNCHANGED <<history, histSeq, saved, writes, conn, closes>>

\* WeatherApp.remove_favorite, the "Remove Selected" button; selection 0 is
\* no selection.
RemoveSelected ==
    /\ app.phase = "running"
    /\ app.runs < MaxRuns
    /\ \E selection \in 0..Len(app.listbox) :
          IF selection = 0
          THEN ReturnsEarly("remove_selected", <<selection>>)
          ELSE
            LET city == SplitFirst(app.listbox[selection])
            IN  IF ExecuteFails(conn)
                THEN /\ last' = HandlerRun("remove_selected", <<selection>>, Absent,
                                           "ProgrammingError")
                     /\ app' = [app EXCEPT !.runs = @ + 1]
                     /\ UNCHANGED <<favorites, added>>
                ELSE LET r == remove_favorite(favorites, PyStr(city))
                     IN  /\ favorites' = r.favs
                         /\ added' = SelectSeq(added, LAMBDA e : e[1] # PyStr(city))
                         /\ last' = HandlerRun("remove_selected", <<selection>>, Absent, "")
                         /\ app' = [app EXCEPT
                                      !.runs = @ + 1,
                                      !.listbox = IF r.ret[1]
                                                  THEN update_favorites_list(r.favs)
                                                  ELSE @]
    /\ UNCHANGED <<favSeq, history, histSeq, saved, writes, conn, closes>>

ShowFavoriteWeather ==
    /\ app.phase = "running"
    /\ app.runs < MaxRuns
    /\ \E selection \in 0..Len(app.listbox), env \in AppEnvs :
          IF selection = 0
          THEN ReturnsEarly("show_favorite_weather", <<selection>>)
          ELSE FetchDisplaySave("show_favorite_weather", <<selection>>,
                                SplitFirst(app.listbox[selection]), env)

\* show_history_graph reads the selected city's history and plots it.
ShowHistoryGraph ==
    /\ app.phase = "running"
    /\ app.runs < MaxRuns
    /\ \E selection \in 0..Len(app.listbox) :
          last' = HandlerRun("show_history_graph", <<selection>>, Absent,
                             IF selection # 0 /\ ExecuteFails(conn)
                             THEN "ProgrammingError" ELSE "")
    /\ app' = [app EXCEPT !.runs = @ + 1]
    /\ UNCHANGED <<favorites, favSeq, history, histSeq, added, saved, writes, conn, closes>>

\* __del__ runs when the interpreter frees the WeatherApp object, after
\* mainloop has returned or after __init__ has failed: it closes the store.
Del ==
    /\ app.phase \in {"running", "failed"}
    /\ conn' = "closed"
    /\ closes' = closes + 1
    /\ app' = [app EXCEPT !.phase = "gone"]
    /\ last' = Call("close", <<>>, PyNone)
    /\ UNCHANGED <<favorites, favSeq, history, histSeq, added, saved, writes>>

\* The process ends and __del__ has not run: Python does not promise to call
\* __del__ for objects that still exist when the interpreter exits, and a
\* killed process calls nothing. The connection goes with the process.
ExitWithoutDel ==
    /\ app.phase \in {"running", "failed"}
    /\ app' = [app EXCEPT !.phase = "gone"]
    /\ last' = Call("exit", <<>>, PyNone)
    /\ UNCHANGED <<favorites, favSeq, history, histSeq, added, saved, writes, conn, closes>>

NextApp ==
    \/ SetupGui
    \/ SearchWeather
    \/ AddToFavorites
    \/ RemoveSelected
    \/ ShowFavoriteWeather
    \/ ShowHistoryGraph
    \/ Del
    \/ ExitWithoutDel

SpecApp == InitApp /\ [][NextApp]_vars

TypeOK ==
    /\ favSeq \in 0..MaxWrites /\ histSeq \in 0..MaxWrites /\ writes \in 0..MaxWrites
    /\ \A r \in favorites : r.id \in 1..favSeq
    /\ \A r \in history : r.id \in 1..histSeq

----------------------------------------------------------------------------
(* Claims about the store, checked under Spec *)

IsFavorite(favs, city) == \E r \in favs : r.city = city

IsPrefix(s, t) == Len(s) <= Len(t) /\ SubSeq(t, 1, Len(s)) = s

\* C1: in every reachable state no two rows of favorites have the same city
\* name, names being compared exactly (case-sensitively).
C1_UniqueCities ==
    \A r1, r2 \in favorites : r1.city = r2.city => r1 = r2

\* "Lahore" and "lahore" are both favorites.
C1_Witness ==
    {PyStr("Lahore"), PyStr("lahore")} \subseteq {r.city : r \in favorites}

\* C2 as amended: add_favorite of a city that is already a favorite returns
\* (False, "City already in favorites.") and leaves the favorites table, the
\* stored lat/lon included, unchanged.
C2_DuplicateAddRejected ==
    (last.op = "add_favorite" /\ IsFavorite(last.favBefore, last.args[1]))
        => /\ last.ret = <<FALSE, "City already in favorites.">>
           /\ favorites = last.favBefore

\* C2 as stated: the message is "City already in favorites" (no full stop).
C2_AsStated ==
    (last.op = "add_favorite" /\ IsFavorite(last.favBefore, last.args[1]))
        => /\ last.ret = <<FALSE, "City already in favorites">>
           /\ favorites = last.favBefore

\* A duplicate add whose lat differs from the stored one has been made.
C2_Witness ==
    /\ last.op = "add_favorite"
    /\ \E r \in last.favBefore : r.city = last.args[1] /\ ~PyEq(r.lat, last.args[2])

C3_RemoveResult ==
    last.op = "remove_favorite" =>
        LET city == last.args[1]
            was  == IsFavorite(last.favBefore, city)
        IN  /\ last.ret = IF was THEN <<TRUE, "City removed.">>
                                 ELSE <<FALSE, "City not found.">>
            /\ ~IsFavorite(favorites, city)
            /\ favorites = {r \in last.favBefore : r.city # city}

C3_SecondRemove ==
    (last.op = "remove_favorite" /\ last'.op = "remove_favorite" /\ last'.args = last.args)
        => last'.ret[1] = FALSE

\* C3: remove_favorite returns (True, "City removed.") exactly when the city
\* was a favorite before the call and (False, "City not found.") otherwise;
\* afterwards the city is no favorite and every other row is unchanged; a
\* remove directly after a remove of the same city returns False.
C3_Remove ==
    []C3_RemoveResult /\ [][C3_SecondRemove]_vars

\* A remove has succeeded and left another favorite in place.
C3_Witness ==
    /\ last.op = "remove_favorite"
    /\ last.ret[1] = TRUE
    /\ favorites # {}

C4_ResultIsAdded ==
    last.op = "get_favorites" =>
        /\ Len(last.ret) = Len(added)
        /\ \A i \in 1..Len(added) :
              /\ last.ret[i][1] = added[i][1]
              /\ PyEq(last.ret[i][2], added[i][2])
              /\ PyEq(last.ret[i][3], added[i][3])
        /\ \A i, j \in 1..Len(last.ret) : last.ret[i][1] = last.ret[j][1] => i = j
        /\ Len(last.ret) = Cardinality(favorites)
        /\ favorites = last.favBefore

C4_Repeatable ==
    (last.op = "get_favorites" /\ last'.op = "get_favorites") => last'.ret = last.ret

\* C4: get_favorites returns, unfiltered, exactly the cities successfully
\* added and not removed since, each once, as (city, lat, lon) with the lat and
\* lon of that add, in the order of those adds; a get_favorites directly
\* after a get_favorites returns the same sequence.
C4_GetFavorites ==
    []C4_ResultIsAdded /\ [][C4_Repeatable]_vars

\* get_favorites has returned two cities of which the first was added again
\* after a removal, so that rowid order and the order of first adds differ.
C4_Witness ==
    /\ last.op = "get_favorites"
    /\ Len(last.ret) = 2
    /\ \E r1, r2 \in favorites :
          r1.city = last.ret[1][1] /\ r2.city = last.ret[2][1] /\ r1.id = 2 /\ r2.id = 3

HistoryLog(hist) == ScanByRowid(hist)

SavedAs(row, weather_data) ==
    /\ row.city = weather_data.city
    /\ PyEq(row.temp, weather_data.temp)
    /\ PyEq(row.humidity, weather_data.humidity)
    /\ PyEq(row.wind_speed, weather_data.wind_speed)
    /\ row.description = weather_data.description
    /\ row.timestamp = weather_data.timestamp

\* C5: the history is an append-only log: every call leaves the log it found
\* as a prefix of the log it leaves, and save_weather_history leaves it one
\* record longer, the new last record being the one saved.
C5_AppendOnly ==
    /\ IsPrefix(HistoryLog(last.histBefore), HistoryLog(history))
    /\ last.op = "save_weather_history" =>
          /\ Len(HistoryLog(history)) = Len(HistoryLog(last.histBefore)) + 1
          /\ SavedAs(HistoryLog(history)[Len(HistoryLog(history))], last.args[1])

\* A record identical to one already in the log has been saved.
C5_Witness ==
    /\ last.op = "save_weather_history"
    /\ \E r \in last.histBefore : SavedAs(r, last.args[1])
    /\ \E r \in last.histBefore : r.city = last.args[1].city /\ ~SavedAs(r, last.args[1])

\* C6: get_weather_history(city) returns exactly the records saved for that
\* city, as (temp, humidity, wind_speed, description, timestamp) with the
\* values saved, in the order saved; nothing when none was saved for it.
C6_GetHistory ==
    last.op = "get_weather_history" =>
        LET expected == SelectSeq(saved, LAMBDA w : w.city = last.args[1])
        IN  /\ Len(last.ret) = Len(expected)
            /\ \A i \in 1..Len(expected) :
                  /\ PyEq(last.ret[i][1], expected[i].temp)
                  /\ PyEq(last.ret[i][2], expected[i].humidity)
                  /\ PyEq(last.ret[i][3], expected[i].wind_speed)
                  /\ last.ret[i][4] = expected[i].description
                  /\ last.ret[i][5] = expected[i].timestamp

\* Two different records of one city have been returned, in the order saved,
\* while a record of another city sits between them in the log.
C6_Witness ==
    /\ last.op = "get_weather_history"
    /\ Len(last.ret) = 2
    /\ last.ret[1] # last.ret[2]
    /\ Len(saved) = 3
    /\ saved[2].city # last.args[1]

\* get_weather_history of a city with no record has returned the empty
\* sequence although records of other cities exist.
C6_WitnessEmpty ==
    /\ last.op = "get_weather_history"
    /\ last.ret = <<>>
    /\ history # {}

----------------------------------------------------------------------------
(* Claims about fetch_weather, checked under SpecFetch *)

Fetched == last.op = "fetch_weather"

\* The call issued its request, the transport succeeded and the body decoded
\* to a JSON object.
GotJsonObject ==
    /\ Fetched
    /\ last.env # Absent
    /\ last.env.transport = "ok"
    /\ last.env.body.k = "dict"

NoCity(city) == city = PyNone \/ city = PyStr("")

CodIs200(body) ==
    /\ "cod" \in DOMAIN body.f
    /\ body.f.cod.k = "num"
    /\ body.f.cod.x10 = 2000

HasKey(v, key) == v.k = "dict" /\ key \in DOMAIN v.f

AllFieldsPresent(body) ==
    /\ HasKey(body, "name")
    /\ HasKey(body, "main") /\ HasKey(body.f.main, "temp") /\ HasKey(body.f.main, "humidity")
    /\ HasKey(body, "wind") /\ HasKey(body.f.wind, "speed")
    /\ HasKey(body, "weather") /\ body.f.weather.k = "list" /\ Len(body.f.weather.e) > 0
    /\ HasKey(body.f.weather.e[1], "description")
    /\ HasKey(body, "coord") /\ HasKey(body.f.coord, "lat") /\ HasKey(body.f.coord, "lon")

\* C7 as stated: fetch_weather never raises; it returns (data, error) with
\* exactly one of the two not None, whatever the arguments and the answers.
C7_NeverThrows ==
    Fetched =>
        /\ last.ret.kind = "return"
        /\ (last.ret.data = PyNone) # (last.ret.error = PyNone)

\* C8 as amended: with no city (None or "") and lat or lon missing,
\* fetch_weather returns (None, "Please provide a city name or coordinates.")
\* and issues no request.
C8_UsageError ==
    (Fetched /\ NoCity(last.args[1]) /\ (last.args[2] = PyNone \/ last.args[3] = PyNone))
        => /\ last.ret.kind = "return"
           /\ last.ret.data = PyNone
           /\ last.ret.error = PyStr("Please provide a city name or coordinates.")
           /\ last.ret.requests = <<>>

\* C8 as stated: the error is "Please provide a city name or coordinates"
\* (no full stop).
C8_AsStated ==
    (Fetched /\ NoCity(last.args[1]) /\ (last.args[2] = PyNone \/ last.args[3] = PyNone))
        => /\ last.ret.kind = "return"
           /\ last.ret.data = PyNone
           /\ last.ret.error = PyStr("Please provide a city name or coordinates")
           /\ last.ret.requests = <<>>

\* fetch_weather was called with an empty city and a latitude alone.
C8_Witness ==
    /\ Fetched
    /\ last.args = <<PyStr(""), PyFloat(315), PyNone>>
    /\ last.ret.kind = "return"

\* C9: when the transport succeeds and the JSON object's cod is not 200,
\* fetch_weather returns no data and, as error, the object's message, or
\* "Error fetching weather data." when it has none, whatever else it carries.
C9_ProviderError ==
    (GotJsonObject /\ ~CodIs200(last.env.body))
        => /\ last.ret.kind = "return"
           /\ last.ret.data = PyNone
           /\ last.ret.error = IF "message" \in DOMAIN last.env.body.f
                                THEN last.env.body.f.message
                                ELSE PyStr("Error fetching weather data.")

\* A response with cod "404", message "city not found" and every field of a
\* successful response has been answered with that message.
C9_Witness ==
    /\ GotJsonObject
    /\ HasKey(last.env.body, "cod") /\ last.env.body.f.cod = PyStr("404")
    /\ AllFieldsPresent(last.env.body)
    /\ last.ret.kind = "return"
    /\ last.ret.error = PyStr("city not found")

\* A response with a cod other than 200 and no message has been answered
\* with the fallback.
C9_WitnessFallback ==
    /\ GotJsonObject
    /\ ~CodIs200(last.env.body)
    /\ last.ret.kind = "return"
    /\ last.ret.error = PyStr("Error fetching weather data.")

\* C10: when the transport succeeds and the JSON object has cod 200 and all
\* expected fields, fetch_weather returns no error and a dict whose city,
\* temp, humidity, wind_speed, description, lat and lon are the object's
\* name, main.temp, main.humidity, wind.speed, weather[0].description,
\* coord.lat and coord.lon, unchanged.
C10_Success ==
    (GotJsonObject /\ CodIs200(last.env.body) /\ AllFieldsPresent(last.env.body))
        => /\ last.ret.kind = "return"
           /\ last.ret.error = PyNone
           /\ last.ret.data.k = "dict"
           /\ last.ret.data.f.city = last.env.body.f.name
           /\ last.ret.data.f.temp = last.env.body.f.main.f.temp
           /\ last.ret.data.f.humidity = last.env.body.f.main.f.humidity
           /\ last.ret.data.f.wind_speed = last.env.body.f.wind.f.speed
           /\ last.ret.data.f.description = last.env.body.f.weather.e[1].f.description
           /\ last.ret.data.f.lat = last.env.body.f.coord.f.lat
           /\ last.ret.data.f.lon = last.env.body.f.coord.f.lon

\* A complete cod-200 response to a query by coordinates has been returned
\* as data.
C10_Witness ==
    /\ GotJsonObject
    /\ CodIs200(last.env.body) /\ AllFieldsPresent(last.env.body)
    /\ last.args[1] = PyNone
    /\ last.ret.kind = "return"
    /\ last.ret.data # PyNone

\* Every container the dict display subscripts is, where present, of the kind
\* subscripted: main, wind and coord objects, weather a list of objects.
WellShaped(body) ==
    /\ \A key \in {"main", "wind", "coord"} : HasKey(body, key) => body.f[key].k = "dict"
    /\ HasKey(body, "weather") =>
          /\ body.f.weather.k = "list"
          /\ \A i \in 1..Len(body.f.weather.e) : body.f.weather.e[i].k = "dict"

\* The error the claim expects for a response lacking an expected field: a
\* data-parsing error that names a key of the dict display.
IsDataParsingError(error) ==
    \E key \in {"name", "main", "temp", "humidity", "wind", "speed", "weather",
                 "description", "coord", "lat", "lon"} :
        error = PyStr("Data parsing error: Missing key '" \o key \o "'")

\* C11 as stated: when the response has cod 200 and an expected field is
\* absent, fetch_weather returns no data and a data-parsing error naming a
\* missing field. Responses whose containers have the wrong kind are left to
\* C7; an absent first weather entry is a case of an absent description.
C11_MissingField ==
    (GotJsonObject /\ CodIs200(last.env.body) /\ WellShaped(last.env.body)
       /\ ~AllFieldsPresent(last.env.body))
        => /\ last.ret.kind = "return"
           /\ last.ret.data = PyNone
           /\ IsDataParsingError(last.ret.error)

\* Where every missing field is a missing key (the weather list, if present,
\* has a first entry), the claim of C11 holds, and the key named is missing.
C11_MissingKey ==
    (GotJsonObject /\ CodIs200(last.env.body) /\ WellShaped(last.env.body)
       /\ ~AllFieldsPresent(last.env.body)
       /\ (HasKey(last.env.body, "weather") => Len(last.env.body.f.weather.e) > 0))
        => /\ last.ret.kind = "return"
           /\ last.ret.data = PyNone
           /\ IsDataParsingError(last.ret.error)

\* C12: one fetch_weather issues at most one request; a transport failure is
\* answered, after that one request, with no data and "Network error: "
\* followed by the cause; a provider error or a data-parsing error likewise
\* follows a single request.
C12_SingleAttempt ==
    Fetched =>
        /\ Len(last.ret.requests) <= 1
        /\ (last.env # Absent /\ last.env.transport # "ok") =>
              /\ last.ret = Returned(PyNone, PyStr("Network error: " \o last.env.cause),
                                     last.ret.requests)
              /\ Len(last.ret.requests) = 1
        /\ (last.ret.kind = "return" /\ last.ret.data = PyNone /\ last.env # Absent) =>
              Len(last.ret.requests) = 1

\* A timeout has been answered with a network error after one request.
C12_Witness ==
    /\ Fetched
    /\ last.env # Absent
    /\ last.env.transport = "Timeout"
    /\ last.ret.kind = "return"
    /\ last.ret.error = PyStr("Network error: Max retries exceeded with url")
    /\ Len(last.ret.requests) = 1

\* C16 as stated: whenever fetch_weather returns no data, the error is a
\* non-empty text.
C16_NonEmptyMessage ==
    (Fetched /\ last.ret.kind = "return" /\ last.ret.data = PyNone)
        => /\ last.ret.error.k = "str"
           /\ last.ret.error.s # ""

\* C17 as stated: with no city and both lat and lon given, zero included,
\* fetch_weather issues the request with the query lat=<lat>&lon=<lon>.
C17_CoordinateQuery ==
    (Fetched /\ NoCity(last.args[1]) /\ last.args[2] # PyNone /\ last.args[3] # PyNone)
        => /\ Len(last.ret.requests) = 1
           /\ last.ret.requests[1].query = <<"lat", last.args[2], "lon", last.args[3]>>

\* C19: add_favorite and remove_favorite, whatever they return, leave the
\* weather_history table as it was (so a removed favorite's history records
\* stay); save_weather_history leaves the favorites table as it was;
\* get_favorites and get_weather_history change neither table.
C19_Independent ==
    /\ last.op \in {"add_favorite", "remove_favorite"} => history = last.histBefore
    /\ last.op = "save_weather_history" => favorites = last.favBefore
    /\ last.op \in {"get_favorites", "get_weather_history"}
          => favorites = last.favBefore /\ history = last.histBefore

\* A favorite whose city has a history record has been removed.
C19_Witness ==
    /\ last.op = "remove_favorite"
    /\ last.ret[1] = TRUE
    /\ IsFavorite(last.favBefore, last.args[1])
    /\ \E h \in history : h.city = last.args[1]

\* A history record has been saved for a city while favorites exist.
C19_WitnessSave ==
    /\ last.op = "save_weather_history"
    /\ history # last.histBefore
    /\ favorites # {}

----------------------------------------------------------------------------
(* Claims about the store's life, checked under SpecLife *)

StoreOps ==
    {"add_favorite", "remove_favorite", "get_favorites", "save_weather_history",
     "get_weather_history"}

\* C14: once close() has been called, every add_favorite, remove_favorite,
\* get_favorites, save_weather_history and get_weather_history call raises
\* instead of returning, and leaves favorites and history as they were.
C14_ClosedIsUnusable ==
    (last.op \in StoreOps /\ conn = "closed")
        => /\ last.exc = "ProgrammingError"
           /\ last.ret = <<>>
           /\ favorites = last.favBefore
           /\ history = last.histBefore

\* add_favorite of a new city has been called on a closed store holding rows.
C14_Witness ==
    /\ last.op = "add_favorite"
    /\ conn = "closed"
    /\ closes = 1
    /\ favorites # {}
    /\ last.args[1] # PyNone
    /\ ~IsFavorite(favorites, last.args[1])

\* C15: running create_tables again, or constructing a new DatabaseManager
\* over the same file after a close, leaves every row of favorites and of
\* weather_history as it was.
C15_SchemaSetupIdempotent ==
    (last.op \in {"create_tables", "connect"})
        => /\ favorites = last.favBefore
           /\ history = last.histBefore

\* A new DatabaseManager has been constructed over a file holding a favorite
\* and a history record.
C15_Witness ==
    /\ last.op = "connect"
    /\ last.exc = ""
    /\ conn = "open"
    /\ favorites # {}
    /\ history # {}

\* create_tables has been run again on an open store holding a favorite.
C15_WitnessRepeated ==
    /\ last.op = "create_tables"
    /\ last.exc = ""
    /\ favorites # {}

----------------------------------------------------------------------------
(* Claims about the application, checked under SpecApp *)

\* C13 as stated: when the WeatherApp that opened the store is gone, whether
\* its construction failed, a handler failed or the process ended without
\* __del__, close() has been called on the store exactly once.
C13_ClosedExactlyOnce ==
    app.phase = "gone" => closes = 1

\* The half of C13 the code keeps: close() is never called twice.
C13_NeverTwice ==
    closes <= 1

HandlerOps == {"search_weather", "add_to_favorites", "show_favorite_weather"}

\* The run's fetch_weather call returned an Observation.
FetchedObservation(run) ==
    /\ run.fetch # Absent
    /\ run.fetch.kind = "return"
    /\ run.fetch.data.k = "dict"

\* C18: a run of search_weather, add_to_favorites or show_favorite_weather
\* changes the store only if its own fetch returned an Observation, and then
\* by at most one row: a history row with that Observation's city, temp,
\* humidity, wind_speed, description and timestamp, or a favorite with its
\* city, lat and lon. A run with no fetch, or whose fetch returned an error
\* or raised, leaves favorites and history as they were.
C18_WriteOnlyFetched ==
    last.op \in HandlerOps =>
        IF FetchedObservation(last)
        THEN LET o == last.fetch.data.f
             IN  IF last.op = "add_to_favorites"
                 THEN /\ history = last.histBefore
                      /\ \/ favorites = last.favBefore
                         \/ \E r \in favorites \ last.favBefore :
                              /\ favorites = last.favBefore \cup {r}
                              /\ r.city = o.city
                              /\ PyEq(r.lat, o.lat)
                              /\ PyEq(r.lon, o.lon)
                 ELSE /\ favorites = last.favBefore
                      /\ \/ history = last.histBefore
                         \/ \E h \in history \ last.histBefore :
                              /\ history = last.histBefore \cup {h}
                              /\ h.city = o.city
                              /\ PyEq(h.temp, o.temp)
                              /\ PyEq(h.humidity, o.humidity)
                              /\ PyEq(h.wind_speed, o.wind_speed)
                              /\ h.description = o.description
                              /\ h.timestamp = o.timestamp
        ELSE /\ favorites = last.favBefore
             /\ history = last.histBefore

\* show_favorite_weather has saved a history record for the selected favorite.
C18_Witness ==
    /\ last.op = "show_favorite_weather"
    /\ FetchedObservation(last)
    /\ history # last.histBefore
    /\ favorites # {}

\* add_to_favorites has added the fetched city, which is not the typed text.
C18_WitnessAdd ==
    /\ last.op = "add_to_favorites"
    /\ FetchedObservation(last)
    /\ favorites # last.favBefore
    /\ \E r \in favorites : r.city # PyStr(Strip(last.args[1]))

\* A handler's fetch has failed while the store held a favorite and a record.
C18_WitnessFailed ==
    /\ last.op \in HandlerOps
    /\ last.fetch # Absent
    /\ ~FetchedObservation(last)
    /\ last.favBefore # {}
    /\ last.histBefore # {}

\* A handler's fetch has returned (None, None) and the handler has raised.
C18_WitnessNoError ==
    /\ last.op \in HandlerOps
    /\ last.fetch # Absent
    /\ last.fetch.kind = "return"
    /\ last.fetch.data = PyNone
    /\ last.exc = "TypeError"

====
